---- MODULE Spec2Model ----
(***************************************************************************)
(* WordPress auto-publisher: the web endpoint api_publish (src/app.py) and *)
(* the batch script main / publish_one (src/post.py), together with the    *)
(* text functions make_slug, strip_html, extract_focus_keyword and         *)
(* build_seo_fields they share.                                            *)
(*                                                                         *)
(* A text is a sequence of Unicode code points (Python str).  A remote     *)
(* call either answers with an HTTP status or raises inside the requests   *)
(* library (timeout, connection error); neither program wraps a call in    *)
(* try/except, so a raised exception unwinds the whole function.           *)
(***************************************************************************)
EXTENDS Integers, Sequences, FiniteSets, TLC

\* ------------------------------------------------------------------ bounds
\* concurrent requests the web server serves (app.py)
NumRequests == 2
\* entries of the batch selection typed at the prompt (post.py main)
MaxSelected == 2
\* folders under publish/ (post.py main)
NumFolders == 2
\* ids the CMS may assign to a created post
MaxPostId == 2
\* tag names in meta.json
MaxTags == 2
\* length of the texts make_slug is tried on
MaxSlugLen == 4
\* length of the longest title build_seo_fields is tried on
MaxTitleLen == 153
\* length of the text that follows the first sentence of a content
MaxFill == 200
\* length of the longest description meta.json gives
MaxOverride == 170
\* length of the titles extract_focus_keyword is tried on
MaxKeywordTitleLen == 4
\* length of the longest focus keyword ensure_focus_keyword_in_content is tried on
MaxKeywordLen == 498

\* ------------------------------------------------------- the remote services
\* statuses a remote endpoint may answer with
Status == {200, 201, 500}
\* what a remote call does: it answers with a status, or (0) it raises inside the
\* requests library (timeout, connection error) and no response exists
Outcomes == Status \cup {0}
MediaIds == {11}
TagIds == {21}
PostIds == 1..MaxPostId
Requests == 1..NumRequests
\* names NamedTemporaryFile may pick: one per request suffices, a request makes one file
TmpNames == 1..NumRequests
\* 0-based indexes a selection may hold: the first folder, and the nearest
\* indexes out of range on either side, -1 and NumFolders
Indexes == {-1, 0, NumFolders}
TagNames == {"diet", "keto"}
\* the tag lists a meta.json gives: n names, "diet" and "keto" in turn
TagList(n) == [i \in 1..n |-> IF i % 2 = 1 THEN "diet" ELSE "keto"]
\* tags the CMS may list in a search response
TagRecs == {[name |-> "Diet", id |-> 31], [name |-> "dietary", id |-> 32]}
\* the lists a search answers with: nothing, a tag of another name, that tag
\* followed by one whose name is "diet" up to case
TagBodies ==
  {<<>>, <<[name |-> "dietary", id |-> 32]>>,
   <<[name |-> "dietary", id |-> 32], [name |-> "Diet", id |-> 31]>>}
\* what find_files may count in a folder: (html files, image files)
FolderKinds == {<<1, 1>>, <<0, 1>>, <<1, 0>>, <<2, 1>>, <<1, 2>>, <<0, 0>>}

VARIABLES
  program,    \* "app": the web server runs; "post": the batch script runs
  pc,         \* pc[r]: where run r stands
  calls,      \* calls[r]: the remote calls run r issued, in order
  result,     \* result[r]: what run r returned (or that it raised)
  media_id,   \* media_id[r]: the local media_id (-1 after a failed upload)
  post_id,    \* post_id[r]: the local post_id (0 before post creation)
  tags,       \* tags[r]: seo["tags"] still to resolve
  tag_ids,    \* tag_ids[r]: ids resolved so far
  draft,      \* draft[r]: what validation found wrong with the run's input
  tmp_path,   \* tmp_path[r]: the request's temporary image file (0: unset)
  fs,         \* temporary files on disk: <<name, request that created it>>
  selected,   \* main: the selection
  pos,        \* main: entries of the selection consumed
  success,    \* main: counter
  fail,       \* main: counter
  mainpc,     \* main: "loop", "call", "end", "crashed" ("off" under app)
  arg,        \* the argument of the text function under study
  ret,        \* what it returned
  fpc         \* "call" before it ran, "ret" after ("off": no text function runs)

vars == <<program, pc, calls, result, media_id, post_id, tags, tag_ids, draft,
          tmp_path, fs, selected, pos, success, fail, mainpc,
          arg, ret, fpc>>

runVars == <<pc, calls, result, media_id, post_id, tags, tag_ids, draft>>
tmpVars == <<tmp_path, fs>>
mainVars == <<selected, pos, success, fail, mainpc>>
fnVars == <<arg, ret, fpc>>

NoResult == [state |-> "none", ok |-> FALSE, post_id |-> 0, errors |-> <<>>]
Returned(ok, id, errs) == [state |-> "returned", ok |-> ok, post_id |-> id, errors |-> errs]
RaisedResult == [state |-> "raised", ok |-> FALSE, post_id |-> 0, errors |-> <<>>]

\* one remote call as the network saw it: the endpoint, the object id it
\* addresses (for post and tag creation: the id the response carries), the tag
\* name it carries, and the answer: "raised" (no response: the requests library
\* raised), "2xx", "non2xx"; "dropped" is an answer the caller throws away
\* unread.  body is the list of tags a tag search answered with
CallBody(ep, id, name, ans, body) ==
  [ep |-> ep, id |-> id, name |-> name, ans |-> ans, body |-> body]
Call(ep, id, name, ans) == CallBody(ep, id, name, ans, <<>>)
Answer(st) == IF st = 0 THEN "raised" ELSE IF st \in 200..299 THEN "2xx" ELSE "non2xx"
Dropped(st) == IF st = 0 THEN "raised" ELSE "dropped"

\* sequences over S of length lo..hi
SeqsOf(S, lo, hi) == UNION {[1..n -> S] : n \in lo..hi}

\* ----------------------------------------------------------- text: characters
\* A text is a sequence of code points.  The classes below are Python's, cut
\* to the code points the model draws its texts from.
\* str.isspace() / regex \s
IsSpace(c) == c \in {9, 10, 11, 12, 13, 28, 29, 30, 31, 32, 133, 160}
\* regex \d
IsDigit(c) == c >= 48 /\ c <= 57
\* regex 가-힣: the Hangul syllables U+AC00..U+D7A3
IsHangul(c) == c >= 44032 /\ c <= 55203
\* regex \w: letters, digits, underscore
IsWord(c) ==
  \/ IsDigit(c) \/ c = 95
  \/ (c >= 65 /\ c <= 90) \/ (c >= 97 /\ c <= 122)
  \/ IsHangul(c)
\* str.lower(), one code point
LowerCh(c) == IF c >= 65 /\ c <= 90 THEN c + 32 ELSE c
lower(s) == [i \in 1..Len(s) |-> LowerCh(s[i])]

\* str.strip()
strip(s) ==
  LET ink == {i \in 1..Len(s) : ~IsSpace(s[i])}
  IN IF ink = {} THEN <<>>
     ELSE SubSeq(s, CHOOSE i \in ink : \A j \in ink : i <= j,
                    CHOOSE i \in ink : \A j \in ink : j <= i)

\* a Python slice s[:n]
Prefix(s, n) == SubSeq(s, 1, IF n < Len(s) THEN n ELSE Len(s))

\* `needle in hay`
Contains(hay, needle) ==
  \E i \in 0..(Len(hay) - Len(needle)) : SubSeq(hay, i + 1, i + Len(needle)) = needle

\* re.sub(r"\s+", by, s): every maximal run of whitespace becomes `by`
SubSpaceRuns(s, by) ==
  LET first == SelectSeq([i \in 1..Len(s) |-> i],
                         LAMBDA i : ~IsSpace(s[i]) \/ i = 1 \/ ~IsSpace(s[i - 1]))
  IN [k \in 1..Len(first) |-> IF IsSpace(s[first[k]]) THEN by ELSE s[first[k]]]

\* ------------------------------------------------------------------ make_slug
\* re.sub(r"[^\w\s가-힣-]", "", slug): what the class keeps
SlugKeeps(c) == IsWord(c) \/ IsSpace(c) \/ IsHangul(c) \/ c = 45

\* (mutation: the character filter of line 57 is left out)
make_slug_unfiltered(text) == SubSpaceRuns(strip(lower(text)), 45)

make_slug(text) ==
  SubSpaceRuns(SelectSeq(strip(lower(text)), SlugKeeps), 45)

\* ------------------------------------------------------------------ strip_html
Min(S) == CHOOSE x \in S : \A y \in S : x <= y
Max(S) == CHOOSE x \in S : \A y \in S : y <= x

\* re.sub(r"<[^>]+>", "", s) from position i on: a "<" opens a tag when a ">"
\* follows with at least one character between them, none of them a ">"
RECURSIVE DropTags(_, _)
DropTags(s, i) ==
  LET opens == {k \in i..Len(s) : s[k] = 60}
  IN IF opens = {} THEN SubSeq(s, i, Len(s))
     ELSE LET k == Min(opens)
              closes == {j \in (k + 1)..Len(s) : s[j] = 62}
          IN IF closes # {} /\ Min(closes) > k + 1
               THEN SubSeq(s, i, k - 1) \o DropTags(s, Min(closes) + 1)
               ELSE SubSeq(s, i, k) \o DropTags(s, k + 1)

strip_html(html) == strip(DropTags(html, 1))

\* ------------------------------------------------------ extract_focus_keyword
\* the last position of the run of digits (of blanks) that starts at i; i - 1
\* when s[i] is none
DigitsEnd(s, i) ==
  LET stops == {j \in i..Len(s) : ~IsDigit(s[j])}
  IN IF stops = {} THEN Len(s) ELSE Min(stops) - 1
SpacesEnd(s, i) ==
  LET stops == {j \in i..Len(s) : ~IsSpace(s[j])}
  IN IF stops = {} THEN Len(s) ELSE Min(stops) - 1

\* where a match of \d+\s*가지 that starts at i ends; 0 when none starts there
CountEnd(s, i) ==
  LET d == DigitsEnd(s, i)
      w == SpacesEnd(s, d + 1)
  IN IF d >= i /\ w + 2 <= Len(s) /\ s[w + 1] = 44032 /\ s[w + 2] = 51648
       THEN w + 2 ELSE 0

\* re.sub(r"\d+\s*가지", "", s) from position i on
RECURSIVE DropCounts(_, _)
DropCounts(s, i) ==
  LET starts == {k \in i..Len(s) : IsDigit(s[k]) /\ CountEnd(s, k) > 0}
  IN IF starts = {} THEN SubSeq(s, i, Len(s))
     ELSE SubSeq(s, i, Min(starts) - 1) \o DropCounts(s, CountEnd(s, Min(starts)) + 1)

\* s.replace(p, "") from position i on: the occurrences of p, left to right,
\* none overlapping the one before
RECURSIVE Remove(_, _, _)
Remove(s, p, i) ==
  LET at == {k \in i..(Len(s) - Len(p) + 1) :
               s[k] = p[1] /\ SubSeq(s, k, k + Len(p) - 1) = p}
  IN IF at = {} THEN SubSeq(s, i, Len(s))
     ELSE SubSeq(s, i, Min(at) - 1) \o Remove(s, p, Min(at) + Len(p))

remove_patterns ==
  <<
    <<50640, 32, 45824, 54644, 32, 51096, 47803, 32, 50508, 47140, 51652>>,
    <<50640, 32, 45824, 54644, 32, 50508, 47140, 51652>>,
    <<50640, 32, 45824, 54644, 32, 50508, 50500, 50556, 32, 54624>>,
    <<44845, 32, 50508, 50500, 50556, 32, 54624>>,
    <<50508, 50500, 50556, 32, 54624>>,
    <<44845, 32, 50508, 50500, 50556, 54624>>,
    <<48152, 46300, 49884, 32, 50508, 50500, 50556, 32, 54624>>,
    <<50640, 32, 45824, 54644>>,
    <<50640, 32, 45824, 54620>>,
    <<50640, 49436, 51032>>,
    <<50640, 49436>>,
    <<51004, 47196, 51032>>,
    <<51004, 47196>>,
    <<47484, 32, 50948, 54620>>,
    <<51012, 32, 50948, 54620>>,
    <<54616, 45716, 32, 48169, 48277>>,
    <<54616, 45716, 32, 48277>>,
    <<54616, 45716, 48277>>,
    <<50508, 50500, 48372, 44592>>,
    <<50508, 50500, 48372, 51088>>,
    <<49345, 49885>>,
    <<48169, 48277>>,
    <<54952, 44284>>,
    <<50896, 51064>>,
    <<51613, 49345>>,
    <<51333, 47448>>,
    <<52264, 51060>>,
    <<52264, 51060, 51216>>,
    <<48708, 44368>>,
    <<52628, 52380>>,
    <<51221, 47532>>,
    <<52509, 51221, 47532>>,
    <<47532, 48624>>,
    <<54980, 44592>>,
    <<51109, 51216>>,
    <<45800, 51216>>,
    <<51109, 45800, 51216>>,
    <<51452, 51032, 49324, 54637>>,
    <<48512, 51089, 50857>>,
    <<53945, 51669>>,
    <<44032, 51060, 46300>>,
    <<50756, 48317, 32, 44032, 51060, 46300>>,
    <<54645, 49900, 32, 51221, 47532>>,
    <<51652, 49892>>,
    <<50724, 54644>>,
    <<54057, 53944>>,
    <<54057, 53944, 52404, 53356>>,
    <<44417, 44552, 51613>>,
    <<51096, 47803, 32, 50508, 47140, 51652>>,
    <<51096, 47803, 50508, 47140, 51652>>,
    <<52572, 49888>>,
    <<52572, 44256, 51032>>,
    <<54952, 44284, 51201, 51064>>,
    <<50732, 48148, 47480>>,
    <<51221, 54869, 54620>>,
    <<44845, 32, 54596, 50836, 54620>>,
    <<48152, 46300, 49884>>,
    <<44845>>
  >>

\* the loop over remove_patterns from pattern n on: each pattern is removed
\* from what the patterns before it left
RECURSIVE RemovePatterns(_, _)
RemovePatterns(s, n) ==
  IF n > Len(remove_patterns) \/ Len(s) = 0 THEN s
  ELSE RemovePatterns(Remove(s, remove_patterns[n], 1), n + 1)

\* re.sub(r"[|,\-~:?!]", "", s)
IsPunct(c) == c \in {124, 44, 45, 126, 58, 63, 33}
NotPunct(c) == ~IsPunct(c)

extract_focus_keyword(title) ==
  LET keyword == strip(SubSpaceRuns(
                   SelectSeq(RemovePatterns(DropCounts(title, 1), 1),
                             NotPunct), 32))
  IN IF keyword # <<>> THEN keyword ELSE title

\* -------------------------------------------- ensure_focus_keyword_in_content
\* the part of the content the keyword is looked for in
ContentStart == 500

\* f"<p>{focus_keyword}에 대해 알아보겠습니다.</p>\n"
keyword_intro(focus_keyword) ==
  <<60, 112, 62>> \o focus_keyword \o
  <<50640, 32, 45824, 54644, 32, 50508, 50500, 48372, 44192, 49845, 45768, 45796, 46, 60, 47, 112, 62, 10>>

ensure_focus_keyword_in_content(html_content, focus_keyword) ==
  LET plain_start == strip_html(Prefix(html_content, ContentStart))
  IN IF Contains(lower(plain_start), lower(focus_keyword))
       THEN html_content
       ELSE keyword_intro(focus_keyword) \o html_content

\* ----------------------------------------- ensure_focus_keyword_in_subheading
\* "h" under re.IGNORECASE
IsH(c) == c \in {104, 72}

\* the match of <hL[^>]*>(.*?)</hL> (L one of levels, IGNORECASE, DOTALL) that
\* starts at i: [^>]* runs to the first ">" after the level digit, (.*?) to the
\* first closing tag after it.  A record of 0s when none starts at i
NoHeading == [start |-> 0, inner |-> 0, close |-> 0, end |-> 0]
HeadingAt(s, i, levels) ==
  IF ~(i + 2 <= Len(s) /\ s[i] = 60 /\ IsH(s[i + 1]) /\ s[i + 2] \in levels)
    THEN NoHeading
  ELSE LET gts == {g \in (i + 3)..Len(s) : s[g] = 62}
       IN IF gts = {} THEN NoHeading
          ELSE LET g == Min(gts)
                   closes == {j \in (g + 1)..(Len(s) - 4) :
                                /\ s[j] = 60 /\ s[j + 1] = 47 /\ IsH(s[j + 2])
                                /\ s[j + 3] \in levels /\ s[j + 4] = 62}
               IN IF closes = {} THEN NoHeading
                  ELSE [start |-> i, inner |-> g + 1, close |-> Min(closes),
                        end |-> Min(closes) + 4]

\* the leftmost match from position i on (re.search); NoHeading when none
FirstHeading(s, i, levels) ==
  LET at == {k \in i..Len(s) : HeadingAt(s, k, levels).start # 0}
  IN IF at = {} THEN NoHeading ELSE HeadingAt(s, Min(at), levels)

\* pattern.findall: group 1 of the matches, left to right, none overlapping
RECURSIVE Subheadings(_, _, _)
Subheadings(s, i, levels) ==
  LET m == FirstHeading(s, i, levels)
  IN IF m.start = 0 THEN <<>>
     ELSE <<SubSeq(s, m.inner, m.close - 1)>> \o Subheadings(s, m.end + 1, levels)

\* tag.replace(inner, by, 1): the first occurrence of inner in tag is replaced;
\* the empty text occurs at the very start
ReplaceFirst(tag, inner, by) ==
  LET at == {k \in 0..(Len(tag) - Len(inner)) : SubSeq(tag, k + 1, k + Len(inner)) = inner}
  IN IF at = {} THEN tag
     ELSE SubSeq(tag, 1, Min(at)) \o by \o SubSeq(tag, Min(at) + Len(inner) + 1, Len(tag))

\* add_keyword_to_first_h2 / add_kw: the replacement of the first h2 match
add_keyword_to_first_h2(tag, inner, focus_keyword) ==
  ReplaceFirst(tag, inner, focus_keyword \o <<32, 45, 32>> \o inner)

ensure_focus_keyword_in_subheading(html_content, focus_keyword) ==
  LET subheadings == Subheadings(html_content, 1, {50, 51})
      m == FirstHeading(html_content, 1, {50})
  IN IF \E n \in 1..Len(subheadings) :
          Contains(lower(strip_html(subheadings[n])), lower(focus_keyword))
       THEN html_content
     ELSE IF m.start = 0 THEN html_content
     ELSE SubSeq(html_content, 1, m.start - 1)
            \o add_keyword_to_first_h2(SubSeq(html_content, m.start, m.end),
                                       SubSeq(html_content, m.inner, m.close - 1),
                                       focus_keyword)
            \o SubSeq(html_content, m.end + 1, Len(html_content))

\* ------------------------------------------------------- inject_external_link
\* the author id inject_external_link treats as the primary author
PrimaryAuthor == 4

\* "instagram.com"
InstagramHost == <<105, 110, 115, 116, 97, 103, 114, 97, 109, 46, 99, 111, 109>>

\* the paragraph appended for the primary author: its text before the URL ...
ProfileLinkOpen ==
  <<60, 112, 62, 45908, 32, 47566, 51008, 32, 44148, 44053, 32, 51221, 48372,
    45716, 32, 60, 97, 32, 104, 114, 101, 102, 61, 34>>
\* ... and after it
ProfileLinkClose ==
  <<34, 32, 116, 97, 114, 103, 101, 116, 61, 34, 95, 98, 108, 97, 110, 107,
    34, 62, 51025, 49437, 32, 44608, 32, 51064, 49828, 53440, 44536, 47016,
    60, 47, 97, 62, 50640, 49436, 32, 54869, 51064, 54616, 49464, 50836, 46,
    60, 47, 112, 62>>
\* the paragraph appended for another author: before, between and after the
\* two places the custom link is written at
CustomLinkOpen ==
  <<60, 112, 62, 45908, 32, 47566, 51008, 32, 51221, 48372, 45716, 32, 60,
    97, 32, 104, 114, 101, 102, 61, 34>>
CustomLinkMid == <<34, 32, 116, 97, 114, 103, 101, 116, 61, 34, 95, 98, 108, 97, 110, 107, 34, 62>>
CustomLinkClose ==
  <<60, 47, 97, 62, 50640, 49436, 32, 54869, 51064, 54616, 49464, 50836, 46,
    60, 47, 112, 62>>

\* app.py's inject_external_link; AUTHOR_INSTAGRAM is the configured profile
\* URL.  post.py's is the branch of the primary author (it has no other)
inject_external_link(html_content, author_id, custom_link, AUTHOR_INSTAGRAM) ==
  IF author_id = PrimaryAuthor
    THEN IF AUTHOR_INSTAGRAM = <<>> \/ Contains(html_content, InstagramHost)
           THEN html_content
           ELSE html_content \o <<10>> \o ProfileLinkOpen \o AUTHOR_INSTAGRAM
                  \o ProfileLinkClose
    ELSE IF custom_link = <<>>
           THEN html_content
           ELSE html_content \o <<10>> \o CustomLinkOpen \o custom_link
                  \o CustomLinkMid \o custom_link \o CustomLinkClose

\* ------------------------------------------------------------ build_seo_fields
\* the lengths build_seo_fields works with
DescSource == 300
DescCut == 140
MinPeriod == 50
DescMax == 155
DescKeep == 152

\* SITE_NAME / CONFIG["site_name"]
SITE_NAME == <<47700, 46356, 49500, 32, 44277, 49885, 32, 48660, 47196, 44536>>

\* meta.json of a folder; app.py has none, which is the empty one. An absent
\* key is the empty text; slug is tested for presence, not for emptiness
EmptyMeta ==
  [focus_keyword |-> <<>>, seo_title |-> <<>>, description |-> <<>>,
   has_slug |-> FALSE, slug |-> <<>>, tags |-> <<>>]

\* s.replace("\n", " ")
NewlinesToBlanks(s) == [i \in 1..Len(s) |-> IF s[i] = 10 THEN 32 ELSE s[i]]

\* s.rfind("."), 0-based, -1 when there is none
RFindPeriod(s) ==
  LET dots == {i \in 1..Len(s) : s[i] = 46}
  IN IF dots = {} THEN -1 ELSE Max(dots) - 1

\* (mutation: the keyword is looked for in the whole source text, not in the
\* description cut from it)
derived_description_loose(focus_keyword, html_content) ==
  LET desc_text == strip(NewlinesToBlanks(Prefix(strip_html(html_content), DescSource)))
      last_period == RFindPeriod(Prefix(desc_text, DescCut))
      description == IF last_period > MinPeriod THEN Prefix(desc_text, last_period + 1)
                     ELSE Prefix(desc_text, DescCut)
  IN IF ~Contains(lower(desc_text), lower(focus_keyword))
       THEN focus_keyword \o <<32, 45, 32>> \o description
       ELSE description

\* the description made from the content when meta.json gives none
derived_description(focus_keyword, html_content) ==
  LET desc_text == strip(NewlinesToBlanks(Prefix(strip_html(html_content), DescSource)))
      last_period == RFindPeriod(Prefix(desc_text, DescCut))
      description == IF last_period > MinPeriod THEN Prefix(desc_text, last_period + 1)
                     ELSE Prefix(desc_text, DescCut)
  IN IF ~Contains(lower(description), lower(focus_keyword))
       THEN focus_keyword \o <<32, 45, 32>> \o description
       ELSE description

\* the 155-character limit
cap(description) ==
  IF Len(description) > DescMax
    THEN Prefix(description, DescKeep) \o <<46, 46, 46>>
    ELSE description

\* the description before the limit is applied
uncapped_description(focus_keyword, html_content, meta) ==
  IF meta.description = <<>>
    THEN derived_description(focus_keyword, html_content)
    ELSE meta.description

\* (mutation: the limit sits inside the `if not description` block)
description_of_capinside(focus_keyword, html_content, meta) ==
  IF meta.description = <<>>
    THEN cap(derived_description(focus_keyword, html_content))
    ELSE meta.description

description_of(focus_keyword, html_content, meta) ==
  cap(uncapped_description(focus_keyword, html_content, meta))

focus_keyword_of(title, meta) ==
  IF meta.focus_keyword # <<>> THEN meta.focus_keyword ELSE extract_focus_keyword(title)

seo_title_of(title, focus_keyword, meta) ==
  IF meta.seo_title # <<>> THEN meta.seo_title
  ELSE IF Contains(lower(title), lower(focus_keyword))
    THEN title \o <<32, 45, 32>> \o SITE_NAME
    ELSE title \o <<32, 124, 32>> \o focus_keyword \o <<32, 45, 32>> \o SITE_NAME

build_seo_fields(title, html_content, meta) ==
  LET focus_keyword == focus_keyword_of(title, meta)
  IN [focus_keyword |-> focus_keyword,
      description |-> description_of(focus_keyword, html_content, meta),
      seo_title |-> seo_title_of(title, focus_keyword, meta),
      slug |-> IF meta.has_slug THEN meta.slug ELSE make_slug(focus_keyword),
      tags |-> meta.tags]

\* ------------------------------------------------------------ control flow
\* a run leaves its function: api_publish runs its finally clause when it is
\* inside the try block (a temporary file is set), publish_one just returns
Leave(r, res) ==
  /\ result' = [result EXCEPT ![r] = res]
  /\ pc' = [pc EXCEPT ![r] = IF program = "app" /\ tmp_path[r] # 0 THEN "finally" ELSE "done"]

Issue(r, c) == calls' = [calls EXCEPT ![r] = Append(@, c)]

\* status checks of the code
UploadOk(st) == st \in {200, 201}
\* (mutation: the status of the post-creation response is not tested)
PostOk_unchecked(st) == TRUE
PostOk(st) == st \in {200, 201}
SearchOk(st) == st = 200
TagCreateOk(st) == st \in {200, 201}
\* (mutation: the caller never tests the sentinel)
UploadFailed_unchecked(mid) == FALSE
UploadFailed(mid) == mid = -1

\* ------------------------------------------------------------ api_publish
\* NamedTemporaryFile creates a file under a name no existing file has; names
\* are interchangeable, the least free one stands for all of them
FreshName(used) == {n \in TmpNames \ used : \A k \in TmpNames \ used : n <= k}

\* the checks of the form, in the order the code makes them: the first that
\* fails names the error
FormErrors(title, html, image, ext, utf8) ==
  IF ~title THEN <<"title">>
  ELSE IF ~html THEN <<"html_file">>
  ELSE IF ~image THEN <<"image_file">>
  ELSE IF ~ext THEN <<"img_ext">>
  ELSE IF ~utf8 THEN <<"utf8">>
  ELSE <<>>

\* (mutation: an undecodable HTML file, or a second image file, is let through)
Rejects_lenient(errs) == errs # <<>> /\ Head(errs) \notin {"utf8", "many_image"}
\* a run whose validation found errors goes no further
Rejects(errs) == errs # <<>>

\* lines 405-429: int() of a form field may raise before any check is made
ApiValidate(r) ==
  /\ program = "app" /\ pc[r] = "validate"
  /\ \E ints, title, html, image, ext, utf8 \in BOOLEAN :
       LET errs == FormErrors(title, html, image, ext, utf8)
       IN IF ~ints THEN Leave(r, RaisedResult) /\ UNCHANGED draft
          ELSE /\ draft' = [draft EXCEPT ![r] = errs]
               /\ IF Rejects(errs) THEN Leave(r, Returned(FALSE, 0, errs))
                  ELSE pc' = [pc EXCEPT ![r] = "save"] /\ UNCHANGED result
  /\ UNCHANGED <<program, calls, media_id, post_id, tags, tag_ids, tmpVars, mainVars, fnVars>>

\* lines 432-434, before the try block: the file is created (delete=False),
\* then image_file.save writes into it and may raise (disk full, broken upload)
ApiSaveTemp(r) ==
  /\ program = "app" /\ pc[r] = "save"
  /\ \E f \in FreshName({x[1] : x \in fs}), saved \in BOOLEAN :
       /\ fs' = fs \cup {<<f, r>>}
       /\ IF saved
            THEN /\ tmp_path' = [tmp_path EXCEPT ![r] = f]
                 /\ pc' = [pc EXCEPT ![r] = "upload"]
                 /\ UNCHANGED result
            ELSE /\ Leave(r, RaisedResult)
                 /\ UNCHANGED tmp_path
  /\ UNCHANGED <<program, calls, media_id, post_id, tags, tag_ids, draft, mainVars, fnVars>>

\* lines 525-526: os.unlink(tmp_path)
ApiFinally(r) ==
  /\ program = "app" /\ pc[r] = "finally"
  /\ fs' = {x \in fs : x[1] # tmp_path[r]}
  /\ pc' = [pc EXCEPT ![r] = "done"]
  /\ UNCHANGED <<program, calls, result, media_id, post_id, tags, tag_ids, draft,
                 tmp_path, mainVars, fnVars>>

\* ------------------------------------------------- upload_image (both files)
UploadImage(r) ==
  /\ pc[r] = "upload"
  /\ \E st \in Outcomes :
       /\ Issue(r, Call("media", 0, "", Answer(st)))
       /\ IF st = 0 THEN Leave(r, RaisedResult) /\ UNCHANGED media_id
          ELSE IF ~UploadOk(st)
            THEN /\ media_id' = [media_id EXCEPT ![r] = -1]
                 /\ pc' = [pc EXCEPT ![r] = "uploaded"]
                 /\ UNCHANGED result
            ELSE /\ \E m \in MediaIds : media_id' = [media_id EXCEPT ![r] = m]
                 /\ pc' = [pc EXCEPT ![r] = "alt"]
                 /\ UNCHANGED result
  /\ UNCHANGED <<program, post_id, tags, tag_ids, draft, tmpVars, mainVars, fnVars>>

UploadAlt(r) ==
  /\ pc[r] = "alt"
  /\ \E st \in Outcomes :
       /\ Issue(r, Call("media_alt", media_id[r], "", Dropped(st)))
       /\ IF st = 0 THEN Leave(r, RaisedResult)
          ELSE pc' = [pc EXCEPT ![r] = "uploaded"] /\ UNCHANGED result
  /\ UNCHANGED <<program, media_id, post_id, tags, tag_ids, draft, tmpVars, mainVars, fnVars>>

\* the caller's check of upload_image's result
AfterUpload(r) ==
  /\ pc[r] = "uploaded"
  /\ IF UploadFailed(media_id[r])
       THEN Leave(r, Returned(FALSE, 0, <<"upload">>))
       ELSE pc' = [pc EXCEPT ![r] = "augment"] /\ UNCHANGED result
  /\ UNCHANGED <<program, calls, media_id, post_id, tags, tag_ids, draft, tmpVars, mainVars, fnVars>>

\* the content pipeline: pure string work, no remote call, cannot fail
Augment(r) ==
  /\ pc[r] = "augment"
  /\ pc' = [pc EXCEPT ![r] = IF program = "post" /\ tags[r] # <<>> THEN "tags" ELSE "post"]
  /\ UNCHANGED <<program, calls, result, media_id, post_id, tags, tag_ids, draft, tmpVars, mainVars, fnVars>>

\* ------------------------------------------- get_or_create_tags (post.py)
\* str.lower() on the tag names of the model
LowerName(n) == IF n = "Diet" THEN "diet" ELSE n

\* (mutation: the names are compared as they are, without lower())
FirstMatch_exact(body, name) ==
  LET hits == {i \in 1..Len(body) : body[i].name = name}
  IN IF hits = {} THEN 0 ELSE CHOOSE i \in hits : \A j \in hits : i <= j

\* position of the first listed tag whose name equals the requested one
\* case-insensitively; 0 when there is none
FirstMatch(body, name) ==
  LET hits == {i \in 1..Len(body) : LowerName(body[i].name) = LowerName(name)}
  IN IF hits = {} THEN 0 ELSE CHOOSE i \in hits : \A j \in hits : i <= j

\* how many names of tag_names the for loop has taken: one search each
Taken(cs) == Cardinality({i \in 1..Len(cs) : cs[i].ep = "tags_search"})

\* the name the loop is at is settled: on to the next one, or to the post
NextTag(r) ==
  /\ UNCHANGED tags
  /\ pc' = [pc EXCEPT ![r] = IF Taken(calls'[r]) = Len(tags[r]) THEN "post" ELSE "tags"]

\* the search for the next name; only a 200 answer carries a list of tags
TagSearch(r) ==
  /\ pc[r] = "tags"
  /\ \E st \in Outcomes, body \in TagBodies :
       LET name == tags[r][Taken(calls[r]) + 1]
           m == FirstMatch(body, name)
       IN /\ st # 200 => body = <<>>
          /\ Issue(r, CallBody("tags_search", 0, name, Answer(st), body))
          /\ IF st = 0 THEN Leave(r, RaisedResult) /\ UNCHANGED <<tags, tag_ids>>
             ELSE IF SearchOk(st) /\ body # <<>> /\ m # 0
               THEN /\ tag_ids' = [tag_ids EXCEPT ![r] = Append(@, body[m].id)]
                    /\ NextTag(r)
                    /\ UNCHANGED result
               ELSE /\ pc' = [pc EXCEPT ![r] = "tag_create"]
                    /\ UNCHANGED <<result, tags, tag_ids>>
  /\ UNCHANGED <<program, media_id, post_id, draft, tmpVars, mainVars, fnVars>>

TagCreate(r) ==
  /\ pc[r] = "tag_create"
  /\ \E st \in Outcomes, t \in TagIds :
       LET name == tags[r][Taken(calls[r])]
       IN /\ Issue(r, Call("tags_create", IF TagCreateOk(st) THEN t ELSE 0, name, Answer(st)))
          /\ IF st = 0 THEN Leave(r, RaisedResult) /\ UNCHANGED <<tags, tag_ids>>
             ELSE IF TagCreateOk(st)
               THEN /\ tag_ids' = [tag_ids EXCEPT ![r] = Append(@, t)]
                    /\ NextTag(r)
                    /\ UNCHANGED result
               ELSE /\ NextTag(r)
                    /\ UNCHANGED <<result, tag_ids>>
  /\ UNCHANGED <<program, media_id, post_id, draft, tmpVars, mainVars, fnVars>>

\* ----------------------------------- post creation and the Rank Math calls
CreatePost(r) ==
  /\ pc[r] = "post"
  /\ \E st \in Outcomes :
       IF st = 0
         THEN /\ Issue(r, Call("posts", 0, "", Answer(st)))
              /\ Leave(r, RaisedResult)
              /\ UNCHANGED post_id
       ELSE IF ~PostOk(st)
         THEN /\ Issue(r, Call("posts", 0, "", Answer(st)))
              /\ Leave(r, Returned(FALSE, 0, <<"post">>))
              /\ UNCHANGED post_id
       ELSE \E p \in PostIds :
              /\ Issue(r, Call("posts", p, "", Answer(st)))
              /\ post_id' = [post_id EXCEPT ![r] = p]
              /\ pc' = [pc EXCEPT ![r] = "meta"]
              /\ UNCHANGED result
  /\ UNCHANGED <<program, media_id, tags, tag_ids, draft, tmpVars, mainVars, fnVars>>

\* (mutation: the payload carries the media id instead of the post id)
ObjectID_media(r) == media_id[r]
\* the objectID of the Rank Math payloads and the id of the re-save URL
ObjectID(r) == post_id[r]

UpdateMeta(r) ==
  /\ pc[r] = "meta"
  /\ \E st \in Outcomes :
       /\ Issue(r, Call("updateMeta", ObjectID(r), "", Dropped(st)))
       /\ IF st = 0 THEN Leave(r, RaisedResult)
          ELSE pc' = [pc EXCEPT ![r] = "schema"] /\ UNCHANGED result
  /\ UNCHANGED <<program, media_id, post_id, tags, tag_ids, draft, tmpVars, mainVars, fnVars>>

UpdateSchemas(r) ==
  /\ pc[r] = "schema"
  /\ \E st \in Outcomes :
       /\ Issue(r, Call("updateSchemas", ObjectID(r), "", Dropped(st)))
       /\ IF st = 0 THEN Leave(r, RaisedResult)
          ELSE IF program = "app"
            THEN pc' = [pc EXCEPT ![r] = "resave"] /\ UNCHANGED result
            ELSE Leave(r, Returned(TRUE, post_id[r], <<>>))
  /\ UNCHANGED <<program, media_id, post_id, tags, tag_ids, draft, tmpVars, mainVars, fnVars>>

\* app.py only: the re-save ping, then the success response
Resave(r) ==
  /\ program = "app" /\ pc[r] = "resave"
  /\ \E st \in Outcomes :
       /\ Issue(r, Call("posts_resave", ObjectID(r), "", Dropped(st)))
       /\ IF st = 0 THEN Leave(r, RaisedResult)
          ELSE Leave(r, Returned(TRUE, post_id[r], <<>>))
  /\ UNCHANGED <<program, media_id, post_id, tags, tag_ids, draft, tmpVars, mainVars, fnVars>>

\* ------------------------------------------------ post.py: validate_folder
validate_folder(kind) ==
  (IF kind[1] = 0 THEN <<"no_html">> ELSE IF kind[1] > 1 THEN <<"many_html">> ELSE <<>>)
  \o (IF kind[2] = 0 THEN <<"no_image">> ELSE IF kind[2] > 1 THEN <<"many_image">> ELSE <<>>)

\* publish_one up to build_seo_fields: validate_folder, read_text, load_meta
PublishOneValidate(r) ==
  /\ program = "post" /\ pc[r] = "validate"
  /\ \E kind \in FolderKinds, readable \in BOOLEAN, ts \in {TagList(n) : n \in 0..MaxTags} :
       LET errors == validate_folder(kind)
       IN /\ draft' = [draft EXCEPT ![r] = errors]
          /\ IF Rejects(errors) THEN Leave(r, Returned(FALSE, 0, errors)) /\ UNCHANGED tags
             ELSE IF ~readable THEN Leave(r, RaisedResult) /\ UNCHANGED tags
             ELSE /\ tags' = [tags EXCEPT ![r] = ts]
                  /\ pc' = [pc EXCEPT ![r] = "upload"]
                  /\ UNCHANGED result
  /\ UNCHANGED <<program, calls, media_id, post_id, tag_ids, tmpVars, mainVars, fnVars>>

\* ------------------------------------------------------------ post.py: main
\* the for loop takes the next entry: an index out of range counts as a
\* failure, any other starts publish_one for that folder
MainLoop ==
  /\ program = "post" /\ mainpc = "loop"
  /\ IF pos = Len(selected)
       THEN /\ mainpc' = "end"
            /\ UNCHANGED <<runVars, pos, fail>>
       ELSE LET idx == selected[pos + 1]
            IN IF idx < 0 \/ idx >= NumFolders
                 THEN /\ fail' = fail + 1
                      /\ pos' = pos + 1
                      /\ UNCHANGED <<runVars, mainpc>>
                 ELSE /\ mainpc' = "call"
                      /\ pc' = [pc EXCEPT ![1] = "validate"]
                      /\ calls' = [calls EXCEPT ![1] = <<>>]
                      /\ result' = [result EXCEPT ![1] = NoResult]
                      /\ media_id' = [media_id EXCEPT ![1] = 0]
                      /\ post_id' = [post_id EXCEPT ![1] = 0]
                      /\ tags' = [tags EXCEPT ![1] = <<>>]
                      /\ tag_ids' = [tag_ids EXCEPT ![1] = <<>>]
                      /\ draft' = [draft EXCEPT ![1] = <<>>]
                      /\ UNCHANGED <<pos, fail>>
  /\ UNCHANGED <<program, tmpVars, selected, success, fnVars>>

\* publish_one came back: count it; an exception it raised ends main
MainReturn ==
  /\ program = "post" /\ mainpc = "call" /\ pc[1] = "done"
  /\ IF result[1].state = "raised"
       THEN mainpc' = "crashed" /\ UNCHANGED <<pos, success, fail>>
       ELSE /\ mainpc' = "loop"
            /\ pos' = pos + 1
            /\ IF result[1].ok
                 THEN success' = success + 1 /\ UNCHANGED fail
                 ELSE fail' = fail + 1 /\ UNCHANGED success
  /\ UNCHANGED <<program, runVars, tmpVars, selected, fnVars>>

\* ------------------------------------------------------------ specification
InitRuns ==
  /\ calls = [r \in Requests |-> <<>>]
  /\ result = [r \in Requests |-> NoResult]
  /\ media_id = [r \in Requests |-> 0]
  /\ post_id = [r \in Requests |-> 0]
  /\ tags = [r \in Requests |-> <<>>]
  /\ tag_ids = [r \in Requests |-> <<>>]
  /\ draft = [r \in Requests |-> <<>>]
  /\ tmp_path = [r \in Requests |-> 0]
  /\ fs = {}
  /\ pos = 0 /\ success = 0 /\ fail = 0

Init ==
  /\ InitRuns
  /\ arg = <<>> /\ ret = <<>> /\ fpc = "off"
  /\ \/ /\ program = "app"
        /\ pc = [r \in Requests |-> "validate"]
        /\ selected = <<>>
        /\ mainpc = "off"
     \/ /\ program = "post"
        /\ pc = [r \in Requests |-> "idle"]
        /\ selected \in SeqsOf(Indexes, 1, MaxSelected)
        /\ mainpc = "loop"

Next ==
  \/ \E r \in Requests : ApiValidate(r)
  \/ \E r \in Requests : ApiSaveTemp(r)
  \/ \E r \in Requests : UploadImage(r)
  \/ \E r \in Requests : UploadAlt(r)
  \/ \E r \in Requests : AfterUpload(r)
  \/ \E r \in Requests : Augment(r)
  \/ \E r \in Requests : TagSearch(r)
  \/ \E r \in Requests : TagCreate(r)
  \/ \E r \in Requests : CreatePost(r)
  \/ \E r \in Requests : UpdateMeta(r)
  \/ \E r \in Requests : UpdateSchemas(r)
  \/ \E r \in Requests : Resave(r)
  \/ \E r \in Requests : ApiFinally(r)
  \/ \E r \in Requests : PublishOneValidate(r)
  \/ MainLoop
  \/ MainReturn

Spec == Init /\ [][Next]_vars

\* ------------------------------------------- specifications of text functions
\* neither program runs: only the text function under study is called
InitIdle ==
  /\ InitRuns
  /\ program = "none"
  /\ pc = [r \in Requests |-> "idle"]
  /\ selected = <<>>
  /\ mainpc = "off"

idleVars == <<program, runVars, tmpVars, mainVars>>

\* texts make_slug is called on: upper and lower case, blank and newline,
\* punctuation, hyphen, underscore, a Hangul syllable
SlugAlphabet == {65, 97, 32, 10, 33, 45, 95, 44032}

InitSlug ==
  /\ InitIdle
  /\ arg \in SeqsOf(SlugAlphabet, 0, MaxSlugLen)
  /\ ret = <<>>
  /\ fpc = "call"

MakeSlug ==
  /\ fpc = "call"
  /\ ret' = make_slug(arg)
  /\ fpc' = "ret"
  /\ UNCHANGED <<arg, idleVars>>

SpecSlug == InitSlug /\ [][MakeSlug]_vars

\* what build_seo_fields is called on
Rep(c, n) == [i \in 1..n |-> c]

\* titles: runs of "K" of several lengths (they are their own keyword), the
\* title of the documentation ("6가지 계란에 대해 잘못 알려진 상식"), "Ab"
SeoTitles ==
  {Rep(75, n) : n \in {1, 2, 13, MaxTitleLen - 1, MaxTitleLen}}
    \cup {<<54, 44032, 51648, 32, 44228, 46976, 50640, 32, 45824, 54644, 32, 51096,
            47803, 32, 50508, 47140, 51652, 32, 49345, 49885>>,
          <<65, 98>>}

\* contents: <p>x..x MID . y..y</p>, the period placed around the positions
\* the code tests (50, 140), MID empty, "kk" or a newline
SeoHtmls ==
  {<<60, 112, 62>> \o Rep(120, n1) \o mid \o <<46>> \o Rep(121, n2) \o <<60, 47, 112, 62>> :
     n1 \in {0, MinPeriod - 1, MinPeriod, MinPeriod + 1, DescCut - 2, DescCut - 1, DescCut},
     mid \in {<<>>, <<107, 107>>, <<10>>},
     n2 \in {0, MaxFill}}

\* meta.json: none, a description of several lengths, a focus keyword
SeoMetas ==
  {EmptyMeta, [EmptyMeta EXCEPT !.focus_keyword = <<122, 122>>]}
    \cup {[EmptyMeta EXCEPT !.description = Rep(100, n)] :
            n \in {1, DescMax, DescMax + 1, MaxOverride}}

InitSeo ==
  /\ InitIdle
  /\ arg \in [title : SeoTitles, html : SeoHtmls, meta : SeoMetas]
  /\ ret = <<>>
  /\ fpc = "call"

BuildSeoFields ==
  /\ fpc = "call"
  /\ ret' = build_seo_fields(arg.title, arg.html, arg.meta)
  /\ fpc' = "ret"
  /\ UNCHANGED <<arg, idleVars>>

SpecSeo == InitSeo /\ [][BuildSeoFields]_vars

\* titles extract_focus_keyword is called on: the two syllables of the filler
\* "상식", a syllable of no filler, a digit, the syllables of "가지", a hyphen
\* (one of the punctuation characters stripped afterwards), a blank
TitleAlphabet == {49345, 49885, 44228, 54, 44032, 51648, 45, 32}

InitExtract ==
  /\ InitIdle
  /\ arg \in SeqsOf(TitleAlphabet, 0, MaxKeywordTitleLen)
  /\ ret = <<>>
  /\ fpc = "call"

ExtractFocusKeyword ==
  /\ fpc = "call"
  /\ ret' = extract_focus_keyword(arg)
  /\ fpc' = "ret"
  /\ UNCHANGED <<arg, idleVars>>

SpecExtract == InitExtract /\ [][ExtractFocusKeyword]_vars

\* what ensure_focus_keyword_in_content is called on.  Keywords: runs of "K"
\* (one as long as the inspected start allows for), "Ab".  Contents:
\* <p>x..xW</p>, W nothing, the keyword in either case, another word, or a tag
\* that holds the keyword as an attribute, at several distances from the start
ContentKeywords ==
  {Rep(75, n) : n \in {1, 2, MaxKeywordLen - 1, MaxKeywordLen}} \cup {<<65, 98>>}

ContentHtmls ==
  {<<60, 112, 62>> \o Rep(120, n) \o w \o <<60, 47, 112, 62>> :
     n \in {0, ContentStart - 6, ContentStart - 5, ContentStart - 4,
            ContentStart - 3, ContentStart},
     w \in {<<>>, <<75>>, <<107, 107>>, <<97, 66>>, <<60, 105, 32, 75, 62>>}}

InitContent ==
  /\ InitIdle
  /\ arg \in [html : ContentHtmls, kw : ContentKeywords]
  /\ ret = <<>>
  /\ fpc = "call"

EnsureInContent ==
  /\ fpc = "call"
  /\ ret' = ensure_focus_keyword_in_content(arg.html, arg.kw)
  /\ fpc' = "ret"
  /\ UNCHANGED <<arg, idleVars>>

SpecContent == InitContent /\ [][EnsureInContent]_vars

\* what ensure_focus_keyword_in_subheading is called on: PRE <h2 ATTR>INNER</h2>
\* POST (the h2 in either case), and contents without any h2.
\* PRE: nothing, a paragraph, an h3 without and one with the keyword
HeadingPres == {<<>>, <<60, 112, 62, 97, 60, 47, 112, 62>>, <<60, 104, 51, 62, 98, 60, 47, 104, 51, 62>>, <<60, 104, 51, 62, 75, 60, 47, 104, 51, 62>>}
\* ATTR: none, an id, a title attribute that reads "T"
HeadingAttrs == {<<>>, <<32, 105, 100, 61, 34, 97, 34>>, <<32, 116, 105, 116, 108, 101, 61, 34, 84, 34>>}
\* INNER: empty, "a", "T" (the word of the title attribute), marked-up text,
\* the keyword in lower case
HeadingInners == {<<>>, <<97>>, <<84>>, <<60, 98, 62, 84, 60, 47, 98, 62>>, <<107>>}
\* POST: nothing, a second h2, an h3 with the keyword
HeadingPosts == {<<>>, <<60, 104, 50, 62, 99, 60, 47, 104, 50, 62>>, <<60, 104, 51, 62, 75, 107, 60, 47, 104, 51, 62>>}
HeadingHtmls ==
  {pre \o <<60, h, 50>> \o attr \o <<62>> \o inner \o <<60, 47, h, 50, 62>> \o post :
     pre \in HeadingPres, h \in {104, 72}, attr \in HeadingAttrs,
     inner \in HeadingInners, post \in HeadingPosts}
    \cup {pre \o post : pre \in HeadingPres \ {<<>>}, post \in {<<>>, <<60, 104, 51, 62, 75, 107, 60, 47, 104, 51, 62>>}}

InitHeading ==
  /\ InitIdle
  /\ arg \in [html : HeadingHtmls, kw : {<<75>>, <<75, 107>>}]
  /\ ret = <<>>
  /\ fpc = "call"

EnsureInSubheading ==
  /\ fpc = "call"
  /\ ret' = ensure_focus_keyword_in_subheading(arg.html, arg.kw)
  /\ fpc' = "ret"
  /\ UNCHANGED <<arg, idleVars>>

SpecHeading == InitHeading /\ [][EnsureInSubheading]_vars

\* what inject_external_link is called on.  Profile URLs: none configured, one
\* on instagram.com, one elsewhere ("https://x.io/a")
InstagramUrl == <<104, 116, 116, 112, 115, 58, 47, 47, 119, 119, 119, 46, 105, 110, 115, 116, 97, 103, 114, 97, 109, 46, 99, 111, 109, 47, 97, 47>>
OtherUrl == <<104, 116, 116, 112, 115, 58, 47, 47, 120, 46, 105, 111, 47, 97>>
ProfileUrls == {<<>>, InstagramUrl, OtherUrl}
\* contents: empty, a paragraph, a paragraph that holds a profile URL, one that
\* names instagram.com without being a link to the profile
LinkHtmls ==
  {<<>>, <<60, 112, 62, 97, 60, 47, 112, 62>>, <<60, 112, 62, 115, 101, 101, 32, 105, 110, 115, 116, 97, 103, 114, 97, 109, 46, 99, 111, 109, 60, 47, 112, 62>>}
    \cup {<<60, 112, 62, 60, 97, 32, 104, 114, 101, 102, 61, 34>> \o u \o <<34, 62, 109, 101, 60, 47, 97, 62, 60, 47, 112, 62>> : u \in {InstagramUrl, OtherUrl}}

InitLink ==
  /\ InitIdle
  /\ arg \in [html : LinkHtmls, author : {PrimaryAuthor, PrimaryAuthor + 1},
              custom : {<<>>, OtherUrl}, profile : ProfileUrls]
  /\ ret = <<>>
  /\ fpc = "call"

InjectExternalLink ==
  /\ fpc = "call"
  /\ ret' = inject_external_link(arg.html, arg.author, arg.custom, arg.profile)
  /\ fpc' = "ret"
  /\ UNCHANGED <<arg, idleVars>>

SpecLink == InitLink /\ [][InjectExternalLink]_vars

\* ------------------------------------------------------------ observations
Issued(r, ep) == {i \in 1..Len(calls[r]) : calls[r][i].ep = ep}
Answered(r, ep, ans) == \E i \in Issued(r, ep) : calls[r][i].ans = ans
Ended(r) == pc[r] = "done"
Failed(r) == result[r].state = "returned" /\ ~result[r].ok
ValidationErrors ==
  {"title", "html_file", "image_file", "img_ext", "utf8",
   "no_html", "many_html", "no_image", "many_image"}

\* ------------------------------------------------------------------ claims

\* C1: when the media upload answers non-2xx, no post-creation, tag, updateMeta
\* or updateSchemas call is issued in that run, and the run, once ended, has
\* returned a failure.
C1_UploadErrorAborts ==
  \A r \in Requests :
    Answered(r, "media", "non2xx") =>
      /\ \A ep \in {"posts", "tags_search", "tags_create", "updateMeta", "updateSchemas"} :
           Issued(r, ep) = {}
      /\ Ended(r) => Failed(r)

C1_Witness ==
  \E r \in Requests : Ended(r) /\ Answered(r, "media", "non2xx") /\ Failed(r)

\* C2: once post creation answered 2xx with id P, a run that has ended has
\* returned success with post id P, and a run that issued updateMeta and has
\* ended has also issued updateSchemas.
C2_SuccessAfterPostCreated ==
  \A r \in Requests :
    Ended(r) =>
      /\ \A i \in Issued(r, "posts") :
           calls[r][i].ans = "2xx" => result[r] = Returned(TRUE, calls[r][i].id, <<>>)
      /\ Issued(r, "updateMeta") # {} => Issued(r, "updateSchemas") # {}

\* C3: a run whose input fails validation returns a failure naming a
\* validation error and issues no remote call at all.
C3_ValidationBeforeRemote ==
  \A r \in Requests :
    draft[r] # <<>> =>
      /\ calls[r] = <<>>
      /\ pc[r] \in {"validate", "done"}
      /\ Ended(r) => Failed(r) /\ result[r].errors = draft[r]

C3_Witness ==
  \E r \in Requests :
    Ended(r) /\ draft[r] # <<>> /\ Failed(r) /\ calls[r] = <<>>
      /\ \A i \in 1..Len(draft[r]) : draft[r][i] \in ValidationErrors

\* C4: updateMeta, updateSchemas and the re-save ping are issued only after a
\* post-creation call of the same run answered 2xx; when post creation answers
\* non-2xx it is the run's last call (so none of these, and no media deletion,
\* follows) and the run, once ended, has returned the post-creation failure.
C4_MetaOnlyAfterPostCreated ==
  \A r \in Requests :
    /\ \A ep \in {"updateMeta", "updateSchemas", "posts_resave"} :
         \A i \in Issued(r, ep) :
           \E j \in Issued(r, "posts") : j < i /\ calls[r][j].ans = "2xx"
    /\ \A j \in Issued(r, "posts") :
         calls[r][j].ans = "non2xx" =>
           /\ j = Len(calls[r])
           /\ Ended(r) => Failed(r) /\ result[r].errors = <<"post">>

C4_Witness ==
  \E r \in Requests :
    Ended(r) /\ Answered(r, "posts", "non2xx") /\ Answered(r, "media", "2xx")

\* C5: no run ends with an exception escaping api_publish / publish_one after
\* one of its remote calls raised.
C5_NoUnhandledException ==
  \A r \in Requests :
    (\E i \in 1..Len(calls[r]) : calls[r][i].ans = "raised") =>
      result[r].state # "raised"

\* C6: a request that has finished has left none of the temporary files it
\* created on disk.
C6_TempFileDeleted ==
  \A r \in Requests :
    program = "app" /\ Ended(r) => \A x \in fs : x[2] # r

\* C7: a run issues the media upload, the post creation, updateMeta and
\* updateSchemas at most once each, and updateMeta and updateSchemas only
\* against the id its own post creation returned.
C7_NoRetries ==
  \A r \in Requests :
    /\ \A ep \in {"media", "posts", "updateMeta", "updateSchemas"} :
         Cardinality(Issued(r, ep)) <= 1
    /\ \A ep \in {"updateMeta", "updateSchemas"} :
         \A i \in Issued(r, ep) :
           \E j \in Issued(r, "posts") :
             j < i /\ calls[r][j].ans = "2xx" /\ calls[r][i].id = calls[r][j].id

C7_Witness ==
  \E r \in Requests :
    /\ Ended(r) /\ result[r].ok
    /\ \A ep \in {"media", "posts", "updateMeta", "updateSchemas"} :
         Cardinality(Issued(r, ep)) = 1

\* C10: make_slug(x) holds no whitespace and nothing but word characters,
\* Hangul syllables and hyphens, and make_slug(make_slug(x)) = make_slug(x).
C10_SlugCleanIdempotent ==
  fpc = "ret" =>
    /\ \A i \in 1..Len(ret) :
         ~IsSpace(ret[i]) /\ (IsWord(ret[i]) \/ IsHangul(ret[i]) \/ ret[i] = 45)
    /\ make_slug(ret) = ret

\* an input with a capital, an inner blank run and a character the filter drops
C10_Witness ==
  /\ fpc = "ret" /\ ret # <<>> /\ ret # arg
  /\ \E i, j, k, l \in 1..Len(arg) :
       /\ arg[i] = 65 /\ arg[j] = 33 /\ IsSpace(arg[k]) /\ IsSpace(arg[l])
       /\ i < k /\ l = k + 1 /\ l < j
  /\ \E i \in 1..Len(ret) : ret[i] = 45

\* C8: the description build_seo_fields returns is at most 155 long, also when
\* meta.json gives it; when the description before the limit is longer than
\* 155, the result is its first 152 characters followed by "...".
C8_DescriptionCapped ==
  fpc = "ret" =>
    LET u == uncapped_description(ret.focus_keyword, arg.html, arg.meta)
    IN /\ Len(ret.description) <= 155
       /\ Len(u) > 155 => ret.description = SubSeq(u, 1, 152) \o <<46, 46, 46>>
       /\ Len(u) <= 155 => ret.description = u

\* a description given by meta.json, longer than the limit, was cut
C8_Witness ==
  /\ fpc = "ret"
  /\ Len(arg.meta.description) > 155
  /\ Len(ret.description) = 155
  /\ SubSeq(ret.description, 1, 152) = SubSeq(arg.meta.description, 1, 152)

\* C9: without a description in meta.json, the description contains the focus
\* keyword, compared in lower case, whenever the keyword is at most 152 long.
C9_KeywordInDescription ==
  (fpc = "ret" /\ arg.meta.description = <<>> /\ Len(ret.focus_keyword) <= 152) =>
    Contains(lower(ret.description), lower(ret.focus_keyword))

\* a keyword of 152 characters was prepended and the limit then cut the rest
C9_Witness ==
  /\ fpc = "ret" /\ arg.meta.description = <<>>
  /\ Len(ret.focus_keyword) = 152
  /\ ~Contains(lower(arg.html), lower(ret.focus_keyword))
  /\ ret.description = ret.focus_keyword \o <<46, 46, 46>>

\* a title holds a filler pattern of the removal list or a digit+"가지" fragment
HasFiller(t) ==
  \/ \E n \in 1..Len(remove_patterns) : Contains(t, remove_patterns[n])
  \/ DropCounts(t, 1) # t

\* C11: for a title holding no filler pattern and no digit+"가지" fragment,
\* extract_focus_keyword applied to its own result returns that result.
C11_ExtractIdempotent ==
  (fpc = "ret" /\ ~HasFiller(arg)) => extract_focus_keyword(ret) = ret

\* C12: when the tag-stripped first 500 characters of the content do not hold
\* the keyword (compared in lower case), the result is the content with the
\* introductory paragraph prepended and its first 500 characters hold the
\* keyword; when they do, the result is the content; and a second application
\* changes nothing.
C12_KeywordInContentStart ==
  fpc = "ret" =>
    LET present == Contains(lower(strip_html(Prefix(arg.html, 500))), lower(arg.kw))
    IN /\ ~present =>
            /\ ret = keyword_intro(arg.kw) \o arg.html
            /\ Contains(lower(Prefix(ret, 500)), lower(arg.kw))
       /\ present => ret = arg.html
       /\ ensure_focus_keyword_in_content(ret, arg.kw) = ret

\* C13: the content comes back unchanged when an h2/h3 heading holds the keyword
\* (compared in lower case) or when there is no h2; otherwise the result is the
\* content with "keyword - " inserted where the inner text of the first h2
\* starts, every other character (the opening tag too) as it was.
C13_SubheadingFrame ==
  fpc = "ret" =>
    LET h == arg.html
        subheadings == Subheadings(h, 1, {50, 51})
        m == FirstHeading(h, 1, {50})
    IN IF \/ m.start = 0
          \/ \E n \in 1..Len(subheadings) :
               Contains(lower(strip_html(subheadings[n])), lower(arg.kw))
         THEN ret = h
         ELSE ret = SubSeq(h, 1, m.inner - 1) \o arg.kw \o <<32, 45, 32>>
                      \o SubSeq(h, m.inner, Len(h))

\* C14: for the primary author and a configured profile URL, the result is the
\* content followed by one link paragraph with that URL when the content does
\* not hold the URL, the content itself when it does, and a second application
\* changes nothing; for another author without a custom link the result is the
\* content.
C14_ExternalLinkOnce ==
  fpc = "ret" =>
    /\ (arg.author = 4 /\ arg.profile # <<>>) =>
         /\ ~Contains(arg.html, arg.profile) =>
              ret = arg.html \o <<10>> \o ProfileLinkOpen \o arg.profile \o ProfileLinkClose
         /\ Contains(arg.html, arg.profile) => ret = arg.html
         /\ inject_external_link(ret, arg.author, arg.custom, arg.profile) = ret
    /\ (arg.author # 4 /\ arg.custom = <<>>) => ret = arg.html

\* the tag calls of a run, in the order they were issued
TagCalls(r) == SelectSeq(calls[r], LAMBDA c : c.ep \in {"tags_search", "tags_create"})

\* the ids of the listed tags whose name is the requested one up to case, in
\* the order of the list
SameName(c) ==
  LET hit(t) == \/ t.name = c.name
                \/ (t.name = "Diet" /\ c.name = "diet")
  IN SelectSeq(c.body, hit)

\* what the tag calls from the i-th on resolve to: a search that lists the name
\* gives the first such tag's id, any other search the id its creation call
\* returned, if that call answered 2xx
RECURSIVE Resolved(_, _)
Resolved(tc, i) ==
  IF i > Len(tc) THEN <<>>
  ELSE IF tc[i].ep # "tags_search" THEN Resolved(tc, i + 1)
  ELSE IF SameName(tc[i]) # <<>> THEN <<SameName(tc[i])[1].id>> \o Resolved(tc, i + 1)
  ELSE IF i < Len(tc) /\ tc[i + 1].ep = "tags_create" /\ tc[i + 1].ans = "2xx"
    THEN <<tc[i + 1].id>> \o Resolved(tc, i + 1)
  ELSE Resolved(tc, i + 1)

\* C15: the tag ids of a run are, in request order, what its searches and
\* creations resolved; the searches go through the requested names in order,
\* one each; a search that lists the name is followed by no creation call, any
\* other answered search by one creation call for that name; and when no call
\* raised, every requested name is searched before post creation, which a run
\* that has ended has issued, also after a creation that answered non-2xx.
C15_TagsResolved ==
  \A r \in Requests :
    LET tc == TagCalls(r)
        searches == SelectSeq(tc, LAMBDA c : c.ep = "tags_search")
        raised == \E i \in 1..Len(calls[r]) : calls[r][i].ans = "raised"
    IN /\ tag_ids[r] = Resolved(tc, 1)
       /\ Len(searches) <= Len(tags[r])
       /\ \A k \in 1..Len(searches) : searches[k].name = tags[r][k]
       /\ \A i \in 1..Len(tc) :
            /\ tc[i].ep = "tags_create" =>
                 /\ i > 1 /\ tc[i - 1].ep = "tags_search" /\ tc[i - 1].name = tc[i].name
                 /\ SameName(tc[i - 1]) = <<>>
            /\ (tc[i].ep = "tags_search" /\ tc[i].ans # "raised" /\ SameName(tc[i]) = <<>>) =>
                 \/ i < Len(tc) /\ tc[i + 1].ep = "tags_create"
                 \/ i = Len(tc) /\ pc[r] = "tag_create"
       /\ Issued(r, "posts") # {} => Len(searches) = Len(tags[r])
       /\ (Ended(r) /\ ~raised /\ tc # <<>>) => Issued(r, "posts") # {}

\* two names: the first found in a list behind a tag of another name, under
\* another case; the second neither found nor created; the post then created
C15_Witness ==
  \E r \in Requests :
    /\ Ended(r) /\ result[r].ok
    /\ Len(tags[r]) = 2 /\ tag_ids[r] = <<31>>
    /\ \E i \in Issued(r, "tags_search") : Len(calls[r][i].body) = 2
    /\ \E i \in Issued(r, "tags_create") : calls[r][i].ans = "non2xx"

\* C16: a run that has ended in a failure reports exactly one reason, whichever
\* of validation, upload or post creation failed.
C16_OneFailureReason ==
  \A r \in Requests :
    (Ended(r) /\ Failed(r)) => Len(result[r].errors) = 1

\* the first call of a run to an endpoint (0: none)
FirstCall(r, ep) == IF Issued(r, ep) = {} THEN 0 ELSE Min(Issued(r, ep))

\* C17: a run issues media upload, post creation, updateMeta and updateSchemas
\* in this order, each only after the one before it succeeded; the content is
\* augmented after the upload answered and before post creation is called; and
\* a run that has ended either went through all of them and returned success,
\* or returned a validation, upload or post-creation failure.
C17_FixedOrder ==
  \A r \in Requests :
    /\ \A i \in Issued(r, "posts") :
         \E j \in Issued(r, "media") : j < i /\ calls[r][j].ans = "2xx"
    /\ \A i \in Issued(r, "updateMeta") :
         \E j \in Issued(r, "posts") : j < i /\ calls[r][j].ans = "2xx"
    /\ \A i \in Issued(r, "updateSchemas") :
         \E j \in Issued(r, "updateMeta") : j < i
    /\ pc[r] = "augment" => Answered(r, "media", "2xx") /\ Issued(r, "posts") = {}
    /\ Ended(r) =>
         /\ result[r].state = "returned"
         /\ result[r].ok =>
              /\ 0 < FirstCall(r, "media")
              /\ FirstCall(r, "media") < FirstCall(r, "posts")
              /\ FirstCall(r, "posts") < FirstCall(r, "updateMeta")
              /\ FirstCall(r, "updateMeta") < FirstCall(r, "updateSchemas")
         /\ ~result[r].ok =>
              /\ result[r].errors # <<>>
              /\ \A k \in 1..Len(result[r].errors) :
                   result[r].errors[k] \in ValidationErrors \cup {"upload", "post"}

\* C18: in batch mode every entry of the selection taken so far is counted
\* once, as a success or as a failure, and when main has stopped every entry
\* of the selection has been taken: success + fail is the number selected.
C18_BatchIndependent ==
  program = "post" =>
    /\ success + fail = pos
    /\ pos <= Len(selected)
    /\ mainpc \in {"end", "crashed"} =>
         pos = Len(selected) /\ success + fail = Len(selected)

====
